---- MODULE Spec2Model ----
(***************************************************************************)
(* Model of imagist-wasm, src/lib.rs: the single entry point resize_image   *)
(* (decode dispatch, conditional resize, RGB normalisation with a           *)
(* data-parallel byte copy, encode dispatch) and its helper decode_heic.    *)
(*                                                                          *)
(* One behaviour is one call.  The arguments are fixed by Init; pc is the   *)
(* position of the call inside the function body.                           *)
(*                                                                          *)
(* Pixel values are not computed (the resampling filter and the codecs are  *)
(* library code): a freshly produced buffer carries at position i the byte  *)
(* i % 256, so that positions can be told apart when buffers are copied,    *)
(* truncated or converted between channel layouts.                          *)
(***************************************************************************)
EXTENDS Integers, Sequences, FiniteSets

\* ---------------------------------------------------------------- bounds
\* Largest image side and largest max_width / max_height explored.
MaxDim == 3
\* Largest number of bytes a HEIC plane may hold beyond width*height*3.
MaxPad == 1
\* Number of workers of the parallel copy.
NumWorkers == 2

\* ------------------------------------------------------ program constants
\* Bytes per pixel of an Rgb8 buffer (ImageBuffer<Rgb<u8>>, ExtendedColorType::Rgb8).
RGB_CHANNELS == 3
\* JpegEncoder::new_with_quality(&mut cursor, 60)
JPEG_QUALITY == 60

VARIABLES
    image_data,   \* argument: the input bytes, described by what decoders make of them
    max_width,    \* argument
    max_height,   \* argument
    format,       \* argument: the format tag
    pc,           \* position of the call
    img,          \* the decoded image
    resized,      \* the image after the resize step
    raw_image,    \* resized.to_rgb8()
    raw_bytes,    \* destination of the parallel copy
    copied,       \* per worker, how many bytes of its chunk it has written
    new_width,    \* raw_image.dimensions().0
    new_height,   \* raw_image.dimensions().1
    buf,          \* the output vector
    panic_msg,    \* the panic message, as the sequence of its formatted parts
    stages        \* the stages that have run so far, in order

vars == <<image_data, max_width, max_height, format, pc, img, resized, raw_image,
          raw_bytes, copied, new_width, new_height, buf, panic_msg, stages>>

\* ------------------------------------------------------------- helpers
Max(a, b) == IF a >= b THEN a ELSE b

\* Content of a freshly produced buffer of n bytes.
Pattern(n) == [i \in 1..n |-> i % 256]

\* A byte slot the copy has not written yet.
Unwritten == -1

NoImage == [width |-> 0, height |-> 0, channels |-> 0, data |-> <<>>]
EmptyBuf == [container |-> "", width |-> 0, height |-> 0, quality |-> 0, lossless |-> FALSE]

\* The format tags explored: the six of the vocabulary and two outside it.
Formats == {"heic", "jpeg", "jpg", "png", "webp", "bmp", "tiff", "JPEG"}

\* Colour layouts a general decode may deliver: L8, Rgb8, Rgba8.
ChannelCounts == {1, 3, 4}

\* The inputs.  kind "std": bytes that image::load_from_memory recognises;
\* kind "heif": a HEIF container; kind "malformed": neither.
\* heif: how far libheif gets with the container.  extra: plane length minus
\* width*height*3.
Inputs ==
    {[kind |-> "malformed", heif |-> "none", width |-> 0, height |-> 0,
      channels |-> 0, extra |-> 0]}
    \cup
    {[kind |-> "std", heif |-> "none", width |-> w, height |-> h,
      channels |-> c, extra |-> 0] : w \in 1..MaxDim, h \in 1..MaxDim, c \in ChannelCounts}
    \cup
    {[kind |-> "heif", heif |-> s, width |-> 0, height |-> 0,
      channels |-> 0, extra |-> 0] : s \in {"no_primary", "decode_error", "no_plane"}}
    \cup
    {[kind |-> "heif", heif |-> "ok", width |-> w, height |-> h,
      channels |-> RGB_CHANNELS, extra |-> e] :
        w \in 1..MaxDim, h \in 1..MaxDim, e \in (0 - 1)..MaxPad}

\* ------------------------------------------------------------- decode
\* image::ImageBuffer::from_raw(width, height, data): Some when the container
\* is large enough for width*height*3 bytes, None otherwise.
from_raw(width, height, data) ==
    IF Len(data) >= width * height * RGB_CHANNELS
    THEN [ok |-> TRUE,
          img |-> [width |-> width, height |-> height,
                   channels |-> RGB_CHANNELS, data |-> data]]
    ELSE [ok |-> FALSE, img |-> NoImage]

\* decode_heic: Ok(image) or Err(message parts).
decode_heic(d) ==
    IF d.kind # "heif"
    THEN [ok |-> FALSE, img |-> NoImage,
          err |-> <<"Error al leer HEIC: ", "HeifError">>]
    ELSE IF d.heif = "no_primary"
    THEN [ok |-> FALSE, img |-> NoImage,
          err |-> <<"No se encontró la imagen principal en el HEIC: ", "HeifError">>]
    ELSE IF d.heif = "decode_error"
    THEN [ok |-> FALSE, img |-> NoImage,
          err |-> <<"Error al decodificar HEIC: ", "HeifError">>]
    ELSE IF d.heif = "no_plane"
    THEN [ok |-> FALSE, img |-> NoImage,
          err |-> <<"No se encontró el canal de color RGB">>]
    ELSE LET r == from_raw(d.width, d.height,
                           Pattern(d.width * d.height * RGB_CHANNELS + d.extra))
         IN  IF r.ok
             THEN [ok |-> TRUE, img |-> r.img, err |-> <<>>]
             ELSE [ok |-> FALSE, img |-> NoImage,
                   err |-> <<"Error al crear ImageBuffer desde datos HEIC">>]

\* Variant of load_from_memory: unrecognised content yields a 1x1 placeholder.
load_from_memory_placeholder(d) ==
    IF d.kind = "std"
    THEN [ok |-> TRUE,
          img |-> [width |-> d.width, height |-> d.height, channels |-> d.channels,
                   data |-> Pattern(d.width * d.height * d.channels)]]
    ELSE [ok |-> TRUE,
          img |-> [width |-> 1, height |-> 1, channels |-> RGB_CHANNELS,
                   data |-> Pattern(RGB_CHANNELS)]]

\* image::load_from_memory: sniffs the content, ignores the tag.
load_from_memory(d) ==
    IF d.kind = "std"
    THEN [ok |-> TRUE,
          img |-> [width |-> d.width, height |-> d.height, channels |-> d.channels,
                   data |-> Pattern(d.width * d.height * d.channels)]]
    ELSE [ok |-> FALSE, img |-> NoImage]

\* Variant of DecodeDispatch: the general-path message leaves the tag out.
DecodeDispatchNoTag(d, f) ==
    IF f = "heic"
    THEN LET r == decode_heic(d)
         IN  IF r.ok THEN [ok |-> TRUE, img |-> r.img, msg |-> <<>>]
             ELSE [ok |-> FALSE, img |-> NoImage,
                   msg |-> <<"Error al decodificar HEIC: ">> \o r.err]
    ELSE LET r == load_from_memory(d)
         IN  IF r.ok THEN [ok |-> TRUE, img |-> r.img, msg |-> <<>>]
             ELSE [ok |-> FALSE, img |-> NoImage,
                   msg |-> <<"Formato no soportado">>]

\* The first match of resize_image: the decoded image, or the panic message.
DecodeDispatch(d, f) ==
    IF f = "heic"
    THEN LET r == decode_heic(d)
         IN  IF r.ok THEN [ok |-> TRUE, img |-> r.img, msg |-> <<>>]
             ELSE [ok |-> FALSE, img |-> NoImage,
                   msg |-> <<"Error al decodificar HEIC: ">> \o r.err]
    ELSE LET r == load_from_memory(d)
         IN  IF r.ok THEN [ok |-> TRUE, img |-> r.img, msg |-> <<>>]
             ELSE [ok |-> FALSE, img |-> NoImage,
                   msg |-> <<"Formato no soportado: ", f>>]

\* ------------------------------------------------------------- resize
\* Variant of NeedsResize: resize whenever the image does not match the bounds.
NeedsResizeUnlessEqual(w, h, mw, mh) == w # mw \/ h # mh

\* The condition of the resize step.
NeedsResize(w, h, mw, mh) == w > mw \/ h > mh

\* round() of the quotient num/den computed in f64.  Away from a tie the
\* result is the nearest integer; at a tie it depends on how the f64 ratio
\* and product were rounded, so both neighbours are possible.
RoundChoices(num, den) ==
    LET q == num \div den
        r2 == 2 * (num % den)
    IN  IF r2 < den THEN {q}
        ELSE IF r2 > den THEN {q + 1}
        ELSE {q, q + 1}

\* Variant of resize_dimensions: the larger of the two ratios (fill).
resize_dimensions_fill(width, height, nwidth, nheight) ==
    IF nwidth * height >= nheight * width
    THEN {<<Max(a, 1), Max(b, 1)>> :
            a \in RoundChoices(width * nwidth, width),
            b \in RoundChoices(height * nwidth, width)}
    ELSE {<<Max(a, 1), Max(b, 1)>> :
            a \in RoundChoices(width * nheight, height),
            b \in RoundChoices(height * nheight, height)}

\* Variant of resize_dimensions: each side stretched to its own bound.
resize_dimensions_exact(width, height, nwidth, nheight) ==
    {<<Max(nwidth, 1), Max(nheight, 1)>>}

\* Variant of resize_dimensions: a side may round down to 0.
resize_dimensions_unclamped(width, height, nwidth, nheight) ==
    IF nwidth * height <= nheight * width
    THEN RoundChoices(width * nwidth, width) \X RoundChoices(height * nwidth, width)
    ELSE RoundChoices(width * nheight, height) \X RoundChoices(height * nheight, height)

\* DynamicImage::resize(nwidth, nheight, filter): the dimensions of the
\* result.  One scale factor, the smaller of nwidth/width and nheight/height,
\* is applied to both sides; each side is rounded and is at least 1.
resize_dimensions(width, height, nwidth, nheight) ==
    IF nwidth * height <= nheight * width
    THEN {<<Max(a, 1), Max(b, 1)>> :
            a \in RoundChoices(width * nwidth, width),
            b \in RoundChoices(height * nwidth, width)}
    ELSE {<<Max(a, 1), Max(b, 1)>> :
            a \in RoundChoices(width * nheight, height),
            b \in RoundChoices(height * nheight, height)}

\* ---------------------------------------------------------- normalise
\* DynamicImage::to_rgb8: a new width*height*3 buffer, each pixel converted
\* from the source layout (grey replicated, alpha dropped, RGB copied).
to_rgb8(im) ==
    [width |-> im.width, height |-> im.height, channels |-> RGB_CHANNELS,
     data |-> [i \in 1..(im.width * im.height * RGB_CHANNELS) |->
                 LET p == (i - 1) \div RGB_CHANNELS
                     k == ((i - 1) % RGB_CHANNELS) + 1
                 IN  IF im.channels = 1 THEN im.data[p + 1]
                     ELSE im.data[im.channels * p + k]]]

\* par_iter() over a slice of n bytes: worker j is handed the j-th of
\* NumWorkers contiguous chunks.
ChunkLo(j, n) == ((j - 1) * n) \div NumWorkers + 1
ChunkHi(j, n) == (j * n) \div NumWorkers

\* Variant of DestIndex: items are stored in the order they arrive.
DestIndexArrival(i) ==
    Cardinality({p \in DOMAIN raw_bytes : raw_bytes[p] # Unwritten}) + 1

\* collect() of an indexed parallel iterator: the item read at position i
\* is stored at position i of the result.
DestIndex(i) == i

\* ------------------------------------------------------------- encode
\* Variant of TargetFormat: no redirection of "heic".
TargetFormatSame(f) == f

\* let target_format = if format == "heic" { "jpeg" } else { format };
TargetFormat(f) == IF f = "heic" THEN "jpeg" ELSE f

\* Variant of EncoderFor: the JPEG arm also matches the upper-case tag.
EncoderForAnyCase(t) ==
    IF t \in {"jpeg", "jpg", "JPEG", "JPG"} THEN "JPEG"
    ELSE IF t = "png" THEN "PNG"
    ELSE IF t = "webp" THEN "WebP"
    ELSE IF t = "bmp" THEN "BMP"
    ELSE "None"

\* The arms of match target_format.
EncoderFor(t) ==
    IF t \in {"jpeg", "jpg"} THEN "JPEG"
    ELSE IF t = "png" THEN "PNG"
    ELSE IF t = "webp" THEN "WebP"
    ELSE IF t = "bmp" THEN "BMP"
    ELSE "None"

\* ImageEncoder::write_image(buf, width, height, Rgb8): succeeds when buf
\* holds exactly width*height*3 bytes.
write_image(bytes, w, h) == Len(bytes) = w * h * RGB_CHANNELS

\* The bytes an encoder writes: container, dimensions and parameters.
Encoded(codec, w, h) ==
    [container |-> codec, width |-> w, height |-> h,
     quality |-> IF codec = "JPEG" THEN JPEG_QUALITY ELSE 0,
     lossless |-> codec \in {"PNG", "WebP", "BMP"}]

\* ---------------------------------------------------------------- Init
Init ==
    /\ image_data \in Inputs
    /\ max_width \in 0..MaxDim
    /\ max_height \in 0..MaxDim
    /\ format \in Formats
    /\ pc = "decode"
    /\ img = NoImage
    /\ resized = NoImage
    /\ raw_image = NoImage
    /\ raw_bytes = <<>>
    /\ copied = [j \in 1..NumWorkers |-> 0]
    /\ new_width = 0
    /\ new_height = 0
    /\ buf = EmptyBuf
    /\ panic_msg = <<>>
    /\ stages = <<>>

\* -------------------------------------------------------------- actions
\* Lines 10-19: decode by tag, panic on failure.
Decode ==
    /\ pc = "decode"
    /\ LET r == DecodeDispatch(image_data, format)
       IN  /\ stages' = Append(stages, "Decode")
           /\ IF r.ok
              THEN /\ img' = r.img
                   /\ pc' = "resize"
                   /\ UNCHANGED panic_msg
              ELSE /\ panic_msg' = r.msg
                   /\ pc' = "panicked"
                   /\ UNCHANGED img
    /\ UNCHANGED <<image_data, max_width, max_height, format, resized, raw_image,
                   raw_bytes, copied, new_width, new_height, buf>>

\* Lines 21-25: resize when a side exceeds its bound, else pass through.
Resize ==
    /\ pc = "resize"
    /\ IF NeedsResize(img.width, img.height, max_width, max_height)
       THEN /\ \E d \in resize_dimensions(img.width, img.height, max_width, max_height) :
                 resized' = [width |-> d[1], height |-> d[2], channels |-> img.channels,
                             data |-> Pattern(d[1] * d[2] * img.channels)]
            /\ stages' = Append(stages, "Resize")
       ELSE /\ resized' = img
            /\ UNCHANGED stages
    /\ pc' = "normalize"
    /\ UNCHANGED <<image_data, max_width, max_height, format, img, raw_image,
                   raw_bytes, copied, new_width, new_height, buf, panic_msg>>

\* Line 27, and the start of line 28: convert to Rgb8 and reserve the
\* destination of the copy.
Normalize ==
    /\ pc = "normalize"
    /\ raw_image' = to_rgb8(resized)
    /\ raw_bytes' = [i \in 1..Len(raw_image'.data) |-> Unwritten]
    /\ copied' = [j \in 1..NumWorkers |-> 0]
    /\ stages' = Append(stages, "Normalize")
    /\ pc' = "copy"
    /\ UNCHANGED <<image_data, max_width, max_height, format, img, resized,
                   new_width, new_height, buf, panic_msg>>

\* Line 28: worker j clones the next byte of its chunk into the result.
Copy(j) ==
    /\ pc = "copy"
    /\ LET i == ChunkLo(j, Len(raw_image.data)) + copied[j]
       IN  /\ i <= ChunkHi(j, Len(raw_image.data))
           /\ raw_bytes' = [raw_bytes EXCEPT ![DestIndex(i)] = raw_image.data[i]]
    /\ copied' = [copied EXCEPT ![j] = @ + 1]
    /\ UNCHANGED <<image_data, max_width, max_height, format, pc, img, resized,
                   raw_image, new_width, new_height, buf, panic_msg, stages>>

\* Every worker has finished its chunk.
AllCopied ==
    \A j \in 1..NumWorkers :
        ChunkLo(j, Len(raw_image.data)) + copied[j] > ChunkHi(j, Len(raw_image.data))

\* Lines 28-29: collect() returns once all workers are done; read the dimensions.
Join ==
    /\ pc = "copy"
    /\ AllCopied
    /\ new_width' = raw_image.width
    /\ new_height' = raw_image.height
    /\ pc' = "encode"
    /\ UNCHANGED <<image_data, max_width, max_height, format, img, resized, raw_image,
                   raw_bytes, copied, buf, panic_msg, stages>>

\* Lines 31-56: pick the encoder by tag, encode, return buf.  An encoder
\* error is unwrapped: the panic text is that of Result::unwrap.
Encode ==
    /\ pc = "encode"
    /\ stages' = Append(stages, "Encode")
    /\ LET codec == EncoderFor(TargetFormat(format))
       IN  IF codec = "None"
           THEN /\ panic_msg' = <<"Formato no soportado: ", format>>
                /\ pc' = "panicked"
                /\ UNCHANGED buf
           ELSE IF write_image(raw_bytes, new_width, new_height)
           THEN /\ buf' = Encoded(codec, new_width, new_height)
                /\ pc' = "done"
                /\ UNCHANGED panic_msg
           ELSE /\ panic_msg' = <<"called Result::unwrap() on an Err value: ", "ImageError">>
                /\ pc' = "panicked"
                /\ UNCHANGED buf
    /\ UNCHANGED <<image_data, max_width, max_height, format, img, resized, raw_image,
                   raw_bytes, copied, new_width, new_height>>

Next ==
    \/ Decode
    \/ Resize
    \/ Normalize
    \/ \E j \in 1..NumWorkers : Copy(j)
    \/ Join
    \/ Encode

Spec == Init /\ [][Next]_vars

\* ============================================================ properties
\* The image has been handed to the encoder (lines 36-54 are next or done).
AtEncoder == pc \in {"encode", "done"}

Has(seq, x) == \E i \in DOMAIN seq : seq[i] = x
Last(seq) == seq[Len(seq)]

\* The message includes the tag the caller passed as one of its parts.  (No
\* fixed text of a message contains a tag of Formats as a substring.)
IncludesTag(msg) == Has(msg, format)

\* The scale factor r = min(max_width / w, max_height / h) as a fraction.
ScaleNum == IF max_width * img.height <= max_height * img.width THEN max_width ELSE max_height
ScaleDen == IF max_width * img.height <= max_height * img.width THEN img.width ELSE img.height
\* out is dim * r up to rounding: |out - dim * r| < 1.
UpToRounding(out, dim) ==
    /\ out * ScaleDen - dim * ScaleNum < ScaleDen
    /\ dim * ScaleNum - out * ScaleDen < ScaleDen

\* C1: when a decodable w x h image exceeds positive bounds in width or in
\* height, the image that is encoded is no wider than max_width and no
\* taller than max_height.
C1_OutputWithinBounds ==
    (/\ AtEncoder
     /\ max_width >= 1 /\ max_height >= 1
     /\ (img.width > max_width \/ img.height > max_height))
    => /\ new_width <= max_width /\ new_height <= max_height
       /\ pc = "done" => (buf.width <= max_width /\ buf.height <= max_height)

C1_Witness ==
    /\ pc = "done"
    /\ max_width >= 1 /\ max_height >= 1
    /\ img.width > max_width
    /\ img.height <= max_height
    /\ buf.width = max_width

\* C2 (as stated): whenever the image is resized, both output sides come
\* from the one factor r = min(max_width / w, max_height / h): the output
\* width is w*r and the output height is h*r up to rounding to an integer.
C2_AspectPreserved_Original ==
    (pc \in {"normalize", "copy", "encode", "done"} /\ Has(stages, "Resize"))
    => /\ UpToRounding(resized.width, img.width)
       /\ UpToRounding(resized.height, img.height)

\* C2 (amended): the same, for bounds that are both at least 1.
C2_AspectPreserved ==
    (/\ pc \in {"normalize", "copy", "encode", "done"}
     /\ Has(stages, "Resize")
     /\ max_width >= 1 /\ max_height >= 1)
    => /\ UpToRounding(resized.width, img.width)
       /\ UpToRounding(resized.height, img.height)

C2_Witness ==
    /\ pc = "done"
    /\ Has(stages, "Resize")
    /\ max_width >= 1 /\ max_height >= 1
    /\ img.width = 3 /\ img.height = 2
    /\ resized.width = 2 /\ resized.height = 1

\* C3: a decodable image with w <= max_width and h <= max_height is not
\* resized: the encoded image is exactly w x h.
C3_NoResizeWithinBounds ==
    (/\ pc \in {"normalize", "copy", "encode", "done"}
     /\ img.width <= max_width /\ img.height <= max_height)
    => /\ ~Has(stages, "Resize")
       /\ resized.width = img.width /\ resized.height = img.height
       /\ AtEncoder => (new_width = img.width /\ new_height = img.height)
       /\ pc = "done" => (buf.width = img.width /\ buf.height = img.height)

C3_Witness ==
    /\ pc = "done"
    /\ img.width = max_width /\ img.height < max_height
    /\ buf.width = img.width /\ buf.height = img.height

\* C4: a call with format "heic" that succeeds has encoded its output with
\* the JPEG encoder, and a call with format "heic" never fails with the
\* format-not-supported message.
C4_HeicYieldsJpeg ==
    format = "heic"
    => /\ pc = "done" => (buf.container = "JPEG" /\ buf.quality = JPEG_QUALITY)
       /\ pc = "panicked" => panic_msg[1] # "Formato no soportado: "

C4_Witness ==
    /\ format = "heic"
    /\ pc = "done"
    /\ buf.container = "JPEG"

\* The six tags of the vocabulary.
Vocabulary == {"heic", "jpeg", "jpg", "png", "webp", "bmp"}

\* C5: for a tag outside the vocabulary the call never returns bytes, and
\* whenever it has stopped it has stopped in the format-not-supported
\* failure, whether the input was decodable or not.
C5_UnknownTagFails ==
    format \notin Vocabulary
    => /\ pc # "done"
       /\ buf = EmptyBuf
       /\ pc = "panicked" => (panic_msg[1] = "Formato no soportado: " /\ IncludesTag(panic_msg))
       /\ ~ENABLED Next => pc = "panicked"

C5_Witness ==
    /\ format = "JPEG"
    /\ image_data.kind = "std"
    /\ pc = "panicked"
    /\ Last(stages) = "Encode"

\* C6 (as stated): every failure carries a message that includes the format
\* tag the caller passed.
C6_MessageHasTag_Original ==
    pc = "panicked" => IncludesTag(panic_msg)

\* C6 (amended): a failure of the general decode path, and a failure of the
\* encode dispatch on an unrecognised tag, carries a message that includes
\* the caller's tag; a failure of the HEIC decode path carries the fixed
\* text "Error al decodificar HEIC: " followed by the error of decode_heic,
\* into which the tag is not interpolated.
C6_MessageHasTag ==
    pc = "panicked"
    => /\ (Last(stages) = "Decode" /\ format # "heic") => IncludesTag(panic_msg)
       /\ (Last(stages) = "Encode" /\ EncoderFor(TargetFormat(format)) = "None")
             => IncludesTag(panic_msg)
       /\ (Last(stages) = "Decode" /\ format = "heic")
             => /\ panic_msg[1] = "Error al decodificar HEIC: "
                /\ Tail(panic_msg) = decode_heic(image_data).err

C6_Witness ==
    /\ pc = "panicked"
    /\ format = "png"
    /\ stages = <<"Decode">>
    /\ panic_msg = <<"Formato no soportado: ", "png">>

\* Position of a stage in the pipeline, and of a value of pc.
StageRank(s) ==
    CASE s = "Decode" -> 1 [] s = "Resize" -> 2 [] s = "Normalize" -> 3 [] s = "Encode" -> 4
PcRank(p) ==
    CASE p = "decode" -> 1 [] p = "resize" -> 2 [] p = "normalize" -> 3 [] p = "copy" -> 4
      [] p = "encode" -> 5 [] p = "done" -> 6 [] p = "panicked" -> 6

C7_StateOK ==
    /\ \A i, j \in DOMAIN stages : i < j => StageRank(stages[i]) < StageRank(stages[j])
    /\ stages # <<>> => stages[1] = "Decode"
    /\ Has(stages, "Resize") => Has(stages, "Decode")
    /\ Has(stages, "Encode") => Has(stages, "Normalize")
    /\ pc = "done" => (Last(stages) = "Encode" /\ buf # EmptyBuf /\ panic_msg = <<>>)
    /\ pc # "done" => buf = EmptyBuf
    /\ pc = "panicked" => (panic_msg # <<>> /\ Last(stages) \in {"Decode", "Encode"})
    /\ (image_data.kind = "malformed" /\ format = "jpeg")
          => (pc \in {"decode", "panicked"} /\ (pc = "panicked" => stages = <<"Decode">>))

C7_StepOK ==
    /\ pc \notin {"done", "panicked"}
    /\ PcRank(pc') >= PcRank(pc)
    /\ \/ stages' = stages
       \/ \E s \in {"Decode", "Resize", "Normalize", "Encode"} : stages' = Append(stages, s)

\* C7: the stages of a call run in the order Decode, Resize (optional),
\* Normalize, Encode, each at most once and never going back; a failed
\* stage is the last one, nothing happens after the call has failed or
\* returned, and bytes exist only once Encode has succeeded.  Malformed
\* bytes with format "jpeg" fail at Decode and return nothing.
C7_LinearPipeline == []C7_StateOK /\ [][C7_StepOK]_vars

C7_Witness ==
    /\ pc = "done"
    /\ stages = <<"Decode", "Resize", "Normalize", "Encode">>

\* C8 (as stated): decode_heic delivers an image only when the interleaved
\* buffer holds exactly width x height x 3 bytes; for any other length,
\* shorter or longer, it fails.
C8_HeicLengthExact ==
    (format = "heic" /\ image_data.kind = "heif" /\ image_data.heif = "ok" /\ pc # "decode")
    => (pc # "panicked" <=> image_data.extra = 0)

\* C9: the parallel copy leaves, under every interleaving of the workers,
\* a buffer identical to the source: while it runs, every slot already
\* written holds the source byte of the same position; once it is over the
\* two buffers have the same length and the same byte at every position.
C9_CopyIdentical ==
    /\ pc = "copy"
         => /\ Len(raw_bytes) = Len(raw_image.data)
            /\ \A i \in DOMAIN raw_bytes :
                  raw_bytes[i] \in {Unwritten, raw_image.data[i]}
    /\ (Has(stages, "Normalize") /\ pc # "copy")
         => /\ Len(raw_bytes) = Len(raw_image.data)
            /\ \A i \in DOMAIN raw_bytes : raw_bytes[i] = raw_image.data[i]

C9_Witness ==
    /\ pc = "encode"
    /\ \A j \in 1..NumWorkers : copied[j] >= 2
    /\ raw_bytes = raw_image.data

\* C10: for every decodable w x h image and all bounds, 0 included, the
\* image handed to the encoder has 1 <= width <= w and 1 <= height <= h.
C10_NeverEnlargedNeverEmpty ==
    AtEncoder
    => /\ 1 <= new_width /\ new_width <= img.width
       /\ 1 <= new_height /\ new_height <= img.height

C10_Witness ==
    /\ pc = "done"
    /\ max_width = 0
    /\ img.width > 1 /\ img.height > 1
    /\ new_width = 1 /\ new_height = 1

====
